---- MODULE Spec2Model ----
(***************************************************************************)
(* Model of banco2.py (Banco GoldSnake): clients, accounts, transaction    *)
(* history and the JSON persistence round trip.                            *)
(*                                                                         *)
(* Amounts are Python floats.  A float is modelled as an integer number of *)
(* currency units that is representable with MantBits significant bits;    *)
(* every float addition and subtraction rounds its exact result to the     *)
(* nearest representable value, ties to even, as IEEE-754 binary64 does    *)
(* with 53 bits.  The exponent range is not bounded: the bounded inputs    *)
(* keep every value far from overflow, and inf/nan are never entered.      *)
(***************************************************************************)
EXTENDS Integers, Sequences, FiniteSets, TLC

\* ------------------------------------------------------------------ bounds
MantBits    == 9   \* significant bits of the modelled float (53 in binary64)
MaxUsuarios == 2   \* clients registered in one process
MaxContas   == 2   \* accounts held in memory
MaxNumero   == 4   \* account objects constructed in one process
MaxRelogio  == 2   \* transactions recorded in one run (one clock reading each)

\* --------------------------------------------------------- program constants
SaldoPadrao        == 0     \* saldo: float = 0.0
LimitePadrao       == 500   \* limite: float = 500.0
LimiteSaquesPadrao == 3     \* limite_saques: int = 3
NumeroInicial      == 1     \* numero_conta_global = 1
TamanhoCPF         == 11    \* r"^\d{11}$"

AgenciaPadrao == "0001"

\* ------------------------------------------------------------------- inputs
\* Amounts typed at the prompt (before float() rounds them).
Entradas == {-5, 0, 495, 996}

Digitos == {"0", "1", "2", "3", "4", "5", "6", "7", "8", "9"}

Rep(c, n) == [i \in 1..n |-> c]

\* CPF strings typed at the prompt, as sequences of characters.
CPFs == {Rep("1", 11), Rep("2", 11), Rep("1", 10) \o <<"x">>}

Nomes     == {"Ana"}
Datas     == {"01/01/1990"}
Enderecos == {"Rua A"}

VARIABLES
    usuarios,             \* list of PessoaFisica objects held by main
    contas,               \* list of account objects held by main
    numero_conta_global,  \* Conta.numero_conta_global
    arquivo,              \* banco_data.json
    relogio,              \* datetime.now()
    construidos,          \* numero of every account object constructed in this process
    aux,                  \* per account in contas: constructor arguments and count of successful calls
    ult                   \* the last call made and what it returned

vars == <<usuarios, contas, numero_conta_global, arquivo, relogio, construidos, aux, ult>>

\* ------------------------------------------------------------ float arithmetic
RECURSIVE Pow2(_)
Pow2(n) == IF n = 0 THEN 1 ELSE 2 * Pow2(n - 1)

Abs(x) == IF x < 0 THEN -x ELSE x

\* Spacing of representable values around magnitude m.
RECURSIVE Ulp(_, _)
Ulp(m, step) == IF m < step * Pow2(MantBits) THEN step ELSE Ulp(m, 2 * step)

\* Round to nearest representable, ties to even.
Round(x) ==
    LET m    == Abs(x)
        step == Ulp(m, 1)
        q    == m \div step
        r    == m % step
        up   == \/ 2 * r > step
                \/ 2 * r = step /\ q % 2 = 1
        res  == IF up THEN (q + 1) * step ELSE q * step
    IN  IF x < 0 THEN -res ELSE res

FAdd(a, b) == Round(a + b)
FSub(a, b) == Round(a - b)

\* --------------------------------------------------------------- transactions
Deposito(valor, agora) == [tipo |-> "Deposito", valor |-> valor, data |-> agora]
Saque(valor, agora)    == [tipo |-> "Saque", valor |-> valor, data |-> agora]

\* adicionar_transacao that puts the newest entry first.
adicionar_transacao_noInicio(historico, transacao) == <<transacao>> \o historico

adicionar_transacao(historico, transacao) == Append(historico, transacao)

\* ------------------------------------------------------------------- clients
PessoaFisica(cpf, nome, data_nascimento, endereco) ==
    [cpf |-> cpf, nome |-> nome, data_nascimento |-> data_nascimento,
     endereco |-> endereco, contas |-> <<>>]

validar_cpf(cpf) == Len(cpf) = TamanhoCPF /\ \A i \in 1..Len(cpf) : cpf[i] \in Digitos

\* ------------------------------------------------------------------ accounts
\* Conta.__init__: the object; the caller advances numero_conta_global.
Conta(cliente, saldo, agencia, numero) ==
    [classe |-> "Conta", saldo |-> saldo, agencia |-> agencia, cliente |-> cliente,
     numero |-> numero, historico |-> <<>>]

ContaCorrente(cliente, saldo, limite, limite_saques, numero) ==
    [classe |-> "ContaCorrente", saldo |-> saldo, agencia |-> AgenciaPadrao,
     cliente |-> cliente, numero |-> numero, historico |-> <<>>,
     limite |-> limite, limite_saques |-> limite_saques]

\* What the methods print.
MsgValorInvalido    == "Valor invalido ou saldo insuficiente."
MsgSaqueOk          == "Saque realizado com sucesso!"
MsgDepositoInvalido == "Valor invalido para deposito."
MsgDepositoOk       == "Deposito realizado com sucesso!"
MsgLimiteSaques     == "Limite de saques diarios atingido."

\* Conta_sacar without the funds check.
Conta_sacar_semSaldo(self, valor, agora) ==
    IF valor <= 0
    THEN [ret |-> FALSE, msg |-> MsgValorInvalido, obj |-> self]
    ELSE [ret |-> TRUE, msg |-> MsgSaqueOk,
          obj |-> [self EXCEPT !.saldo = FSub(self.saldo, valor),
                               !.historico = adicionar_transacao(@, Saque(valor, agora))]]

Conta_sacar(self, valor, agora) ==
    IF valor > self.saldo \/ valor <= 0
    THEN [ret |-> FALSE, msg |-> MsgValorInvalido, obj |-> self]
    ELSE [ret |-> TRUE, msg |-> MsgSaqueOk,
          obj |-> [self EXCEPT !.saldo = FSub(self.saldo, valor),
                               !.historico = adicionar_transacao(@, Saque(valor, agora))]]

\* Conta_depositar that does not record the deposit.
Conta_depositar_semRegistro(self, valor, agora) ==
    IF valor <= 0
    THEN [ret |-> FALSE, msg |-> MsgDepositoInvalido, obj |-> self]
    ELSE [ret |-> TRUE, msg |-> MsgDepositoOk, obj |-> [self EXCEPT !.saldo = FAdd(self.saldo, valor)]]

Conta_depositar(self, valor, agora) ==
    IF valor <= 0
    THEN [ret |-> FALSE, msg |-> MsgDepositoInvalido, obj |-> self]
    ELSE [ret |-> TRUE, msg |-> MsgDepositoOk,
          obj |-> [self EXCEPT !.saldo = FAdd(self.saldo, valor),
                               !.historico = adicionar_transacao(@, Deposito(valor, agora))]]

\* ContaCorrente_sacar that counts the withdrawal before checking the amount.
ContaCorrente_sacar_contaAntes(self, valor, agora) ==
    IF self.limite_saques <= 0
    THEN [ret |-> FALSE, msg |-> MsgLimiteSaques, obj |-> self]
    ELSE IF valor > FAdd(self.saldo, self.limite) \/ valor <= 0
    THEN [ret |-> FALSE, msg |-> MsgValorInvalido, obj |-> [self EXCEPT !.limite_saques = @ - 1]]
    ELSE [ret |-> TRUE, msg |-> MsgSaqueOk,
          obj |-> [self EXCEPT !.saldo = FSub(self.saldo, valor),
                               !.limite_saques = @ - 1,
                               !.historico = adicionar_transacao(@, Saque(valor, agora))]]

\* ContaCorrente_sacar that still accepts a withdrawal when the count is 0.
ContaCorrente_sacar_umAMais(self, valor, agora) ==
    IF self.limite_saques < 0
    THEN [ret |-> FALSE, msg |-> MsgLimiteSaques, obj |-> self]
    ELSE IF valor > FAdd(self.saldo, self.limite) \/ valor <= 0
    THEN [ret |-> FALSE, msg |-> MsgValorInvalido, obj |-> self]
    ELSE [ret |-> TRUE, msg |-> MsgSaqueOk,
          obj |-> [self EXCEPT !.saldo = FSub(self.saldo, valor),
                               !.limite_saques = @ - 1,
                               !.historico = adicionar_transacao(@, Saque(valor, agora))]]

\* ContaCorrente_sacar that checks the amount before the withdrawal count.
ContaCorrente_sacar_valorAntes(self, valor, agora) ==
    IF valor > FAdd(self.saldo, self.limite) \/ valor <= 0
    THEN [ret |-> FALSE, msg |-> MsgValorInvalido, obj |-> self]
    ELSE IF self.limite_saques <= 0
    THEN [ret |-> FALSE, msg |-> MsgLimiteSaques, obj |-> self]
    ELSE [ret |-> TRUE, msg |-> MsgSaqueOk,
          obj |-> [self EXCEPT !.saldo = FSub(self.saldo, valor),
                               !.limite_saques = @ - 1,
                               !.historico = adicionar_transacao(@, Saque(valor, agora))]]

\* ContaCorrente_sacar that records the withdrawal as a deposit.
ContaCorrente_sacar_registraDeposito(self, valor, agora) ==
    IF self.limite_saques <= 0
    THEN [ret |-> FALSE, msg |-> MsgLimiteSaques, obj |-> self]
    ELSE IF valor > FAdd(self.saldo, self.limite) \/ valor <= 0
    THEN [ret |-> FALSE, msg |-> MsgValorInvalido, obj |-> self]
    ELSE [ret |-> TRUE, msg |-> MsgSaqueOk,
          obj |-> [self EXCEPT !.saldo = FSub(self.saldo, valor),
                               !.limite_saques = @ - 1,
                               !.historico = adicionar_transacao(@, Deposito(valor, agora))]]

ContaCorrente_sacar(self, valor, agora) ==
    IF self.limite_saques <= 0
    THEN [ret |-> FALSE, msg |-> MsgLimiteSaques, obj |-> self]
    ELSE IF valor > FAdd(self.saldo, self.limite) \/ valor <= 0
    THEN [ret |-> FALSE, msg |-> MsgValorInvalido, obj |-> self]
    ELSE [ret |-> TRUE, msg |-> MsgSaqueOk,
          obj |-> [self EXCEPT !.saldo = FSub(self.saldo, valor),
                               !.limite_saques = @ - 1,
                               !.historico = adicionar_transacao(@, Saque(valor, agora))]]

\* Method resolution: ContaCorrente overrides sacar only.
sacar(self, valor, agora) ==
    IF self.classe = "ContaCorrente"
    THEN ContaCorrente_sacar(self, valor, agora)
    ELSE Conta_sacar(self, valor, agora)

\* depositar overridden in ContaCorrente to refuse once the withdrawal count is used up.
depositar_comLimite(self, valor, agora) ==
    IF self.classe = "ContaCorrente" /\ self.limite_saques <= 0
    THEN [ret |-> FALSE, msg |-> MsgLimiteSaques, obj |-> self]
    ELSE Conta_depositar(self, valor, agora)

depositar(self, valor, agora) == Conta_depositar(self, valor, agora)

\* --------------------------------------------------------------- persistence
Get(d, k, default) == IF k \in DOMAIN d THEN d[k] ELSE default

\* datetime.isoformat(): the timestamp as an ISO-8601 string.
isoformat(t) == [iso |-> t]

Historico_to_dict(historico) ==
    [transacoes |-> [i \in 1..Len(historico) |->
                        [valor |-> historico[i].valor,
                         data  |-> isoformat(historico[i].data)]]]

\* Historico.from_dict: each entry is constructed anew, so it takes the time of
\* the call; float() of a number the file holds is that number as a float.
Historico_from_dict(data, agora) ==
    LET ts == Get(data, "transacoes", <<>>)
    IN  [i \in 1..Len(ts) |->
            IF ts[i].valor > 0
            THEN Deposito(Round(ts[i].valor), agora)
            ELSE Saque(-Round(ts[i].valor), agora)]

PessoaFisica_to_dict(u) ==
    [cpf |-> u.cpf, nome |-> u.nome, data_nascimento |-> u.data_nascimento,
     endereco |-> u.endereco]

PessoaFisica_from_dict(data) ==
    PessoaFisica(data.cpf, data.nome, data.data_nascimento, data.endereco)

\* self.cliente is a reference to a client object: its position in clientes.
ContaCorrente_to_dict(self, clientes) ==
    [numero |-> self.numero, cpf |-> clientes[self.cliente].cpf, saldo |-> self.saldo,
     limite |-> self.limite, limite_saques |-> self.limite_saques,
     historico |-> Historico_to_dict(self.historico)]

\* next((c for c in clientes if c.cpf == cpf), None): first match, 0 for None.
ProcurarCliente(clientes, cpf) ==
    LET achados == {i \in 1..Len(clientes) : clientes[i].cpf = cpf}
    IN  IF achados = {} THEN 0
        ELSE CHOOSE i \in achados : \A j \in achados : i <= j

\* ContaCorrente_from_dict that does not pass the persisted limite_saques on.
ContaCorrente_from_dict_semSaques(data, clientes, numero) ==
    LET cliente == ProcurarCliente(clientes, data.cpf)
    IN  IF cliente = 0
        THEN [erro |-> TRUE]
        ELSE [erro |-> FALSE,
              obj  |-> ContaCorrente(cliente,
                                     Get(data, "saldo", SaldoPadrao),
                                     Get(data, "limite", LimitePadrao),
                                     LimiteSaquesPadrao,
                                     numero)]

ContaCorrente_from_dict(data, clientes, numero) ==
    LET cliente == ProcurarCliente(clientes, data.cpf)
    IN  IF cliente = 0
        THEN [erro |-> TRUE]
        ELSE [erro |-> FALSE,
              obj  |-> ContaCorrente(cliente,
                                     Get(data, "saldo", SaldoPadrao),
                                     Get(data, "limite", LimitePadrao),
                                     Get(data, "limite_saques", LimiteSaquesPadrao),
                                     numero)]

\* json.dump / json.load keep strings, ints and finite floats exactly.
json_dump(data) == [tipo |-> "json", doc |-> data]
json_load(arq)  == arq.doc

Ausente == [tipo |-> "ausente"]

\* A file that is there but is not a JSON document: text the JSON parser
\* rejects, or bytes that are not text in the encoding open() uses.
TextoInvalido  == [tipo |-> "texto"]
BytesInvalidos == [tipo |-> "bytes"]

salvar_dados(us, cs) ==
    json_dump([usuarios |-> [i \in 1..Len(us) |-> PessoaFisica_to_dict(us[i])],
               contas   |-> [i \in 1..Len(cs) |-> ContaCorrente_to_dict(cs[i], us)]])

\* carregar_contas in which a construction does not advance the counter.
RECURSIVE carregar_contas_semIncremento(_, _, _, _)
carregar_contas_semIncremento(ds, clientes, numero, acc) ==
    IF ds = <<>>
    THEN [res |-> "ok", contas |-> acc, numero |-> numero]
    ELSE LET c == ContaCorrente_from_dict(Head(ds), clientes, numero)
         IN  IF c.erro
             THEN [res |-> "ValueError", contas |-> acc, numero |-> numero]
             ELSE carregar_contas_semIncremento(Tail(ds), clientes, numero, Append(acc, c.obj))

\* contas = [ContaCorrente.from_dict(d, usuarios) for d in ...], one record at a
\* time: a record without owner raises after the earlier ones were constructed.
RECURSIVE carregar_contas(_, _, _, _)
carregar_contas(ds, clientes, numero, acc) ==
    IF ds = <<>>
    THEN [res |-> "ok", contas |-> acc, numero |-> numero]
    ELSE LET c == ContaCorrente_from_dict(Head(ds), clientes, numero)
         IN  IF c.erro
             THEN [res |-> "ValueError", contas |-> acc, numero |-> numero]
             ELSE carregar_contas(Tail(ds), clientes, numero + 1, Append(acc, c.obj))

\* carregar_dados in which the owner error is caught like a JSON error.
carregar_dados_engoleErro(arq, numero) ==
    IF arq.tipo \in {"ausente", "texto"}
    THEN [res |-> "ok", usuarios |-> <<>>, contas |-> <<>>, numero |-> numero]
    ELSE IF arq.tipo = "bytes"
    THEN [res |-> "UnicodeDecodeError", usuarios |-> <<>>, contas |-> <<>>, numero |-> numero]
    ELSE LET data == json_load(arq)
             us   == [i \in 1..Len(Get(data, "usuarios", <<>>)) |->
                         PessoaFisica_from_dict(data.usuarios[i])]
             r    == carregar_contas(Get(data, "contas", <<>>), us, numero, <<>>)
         IN  IF r.res = "ok"
             THEN [res |-> "ok", usuarios |-> us, contas |-> r.contas, numero |-> r.numero]
             ELSE [res |-> "ok", usuarios |-> <<>>, contas |-> <<>>, numero |-> r.numero]

\* res is "ok" for a normal return, else the exception that leaves the function;
\* contas then holds the objects constructed before it was raised.  A missing
\* file and a file whose text is not JSON give empty lists; a file whose bytes
\* cannot be decoded raises in json.load before the JSON parser sees any text.
carregar_dados(arq, numero) ==
    IF arq.tipo \in {"ausente", "texto"}
    THEN [res |-> "ok", usuarios |-> <<>>, contas |-> <<>>, numero |-> numero]
    ELSE IF arq.tipo = "bytes"
    THEN [res |-> "UnicodeDecodeError", usuarios |-> <<>>, contas |-> <<>>, numero |-> numero]
    ELSE LET data == json_load(arq)
             us   == [i \in 1..Len(Get(data, "usuarios", <<>>)) |->
                         PessoaFisica_from_dict(data.usuarios[i])]
             r    == carregar_contas(Get(data, "contas", <<>>), us, numero, <<>>)
         IN  [res |-> r.res, usuarios |-> us, contas |-> r.contas, numero |-> r.numero]

\* ------------------------------------------------------------------ auxiliary
\* What an account object was constructed with, and how many calls on it returned True.
AuxDe(c) == [saldo0 |-> c.saldo,
             saques0 |-> IF c.classe = "ContaCorrente" THEN c.limite_saques ELSE 0,
             ok |-> 0]

Numeros(cs) == [i \in 1..Len(cs) |-> cs[i].numero]

\* -------------------------------------------------------------------- actions
\* ult after anything that is not a depositar or sacar call.
Outra == [op |-> "outra", valor |-> 0, ret |-> "nada", msg |-> ""]

Init ==
    /\ usuarios = <<>>
    /\ contas = <<>>
    /\ numero_conta_global = NumeroInicial
    /\ arquivo = Ausente
    /\ relogio = 0
    /\ construidos = <<>>
    /\ aux = <<>>
    /\ ult = Outra

\* cadastrar_usuario without the search for the cpf among the clients.
cadastrar_usuario_semBusca(us, nome, data_nascimento, cpf, endereco) ==
    IF ~validar_cpf(cpf)
    THEN [res |-> "cpf_invalido", usuarios |-> us]
    ELSE [res |-> "ok",
          usuarios |-> Append(us, PessoaFisica(cpf, nome, data_nascimento, endereco))]

\* cadastrar_usuario(usuarios) with what input() returned: the list afterwards
\* and which of the three messages was printed.
cadastrar_usuario(us, nome, data_nascimento, cpf, endereco) ==
    IF ~validar_cpf(cpf)
    THEN [res |-> "cpf_invalido", usuarios |-> us]
    ELSE IF \E i \in 1..Len(us) : us[i].cpf = cpf
    THEN [res |-> "duplicado", usuarios |-> us]
    ELSE [res |-> "ok",
          usuarios |-> Append(us, PessoaFisica(cpf, nome, data_nascimento, endereco))]

CadastrarUsuario(nome, data_nascimento, cpf, endereco) ==
    LET r == cadastrar_usuario(usuarios, nome, data_nascimento, cpf, endereco)
    IN  /\ Len(r.usuarios) <= MaxUsuarios
        /\ usuarios' = r.usuarios
        /\ ult' = Outra
        /\ UNCHANGED <<contas, numero_conta_global, arquivo, relogio, construidos, aux>>

\* The same call with the printed message observed.
CadastrarUsuarioVisto(nome, data_nascimento, cpf, endereco) ==
    LET r == cadastrar_usuario(usuarios, nome, data_nascimento, cpf, endereco)
    IN  /\ Len(r.usuarios) <= MaxUsuarios
        /\ usuarios' = r.usuarios
        /\ ult' = [op |-> "cadastrar_usuario", valor |-> 0, ret |-> r.res, msg |-> "",
                   cpf |-> cpf]
        /\ UNCHANGED <<contas, numero_conta_global, arquivo, relogio, construidos, aux>>

CadastrarConta(cpf) ==
    LET usuario == ProcurarCliente(usuarios, cpf)
    IN  IF usuario = 0
        THEN /\ ult' = Outra
             /\ UNCHANGED <<usuarios, contas, numero_conta_global, arquivo, relogio, construidos, aux>>
        ELSE LET conta == ContaCorrente(usuario, SaldoPadrao, LimitePadrao,
                                        LimiteSaquesPadrao, numero_conta_global)
             IN  /\ Len(contas) < MaxContas
                 /\ numero_conta_global <= MaxNumero
                 /\ contas' = Append(contas, conta)
                 /\ aux' = Append(aux, AuxDe(conta))
                 /\ numero_conta_global' = numero_conta_global + 1
                 /\ construidos' = Append(construidos, conta.numero)
                 /\ ult' = Outra
                 /\ UNCHANGED <<usuarios, arquivo, relogio>>

\* Efeito with the log held by the class, so that every account sees the entry.
Efeito_historicoDaClasse(i, r) ==
    /\ r.ret => relogio < MaxRelogio
    /\ contas' = [j \in 1..Len(contas) |->
                     IF j = i THEN r.obj ELSE [contas[j] EXCEPT !.historico = r.obj.historico]]
    /\ aux' = [aux EXCEPT ![i].ok = IF r.ret THEN @ + 1 ELSE @]
    /\ relogio' = IF r.ret THEN relogio + 1 ELSE relogio
    /\ UNCHANGED <<usuarios, numero_conta_global, arquivo, construidos>>

\* The effect of one depositar or sacar call on account i, given the method's
\* result r: a successful call read the clock once, and time has passed before
\* the next call.
Efeito(i, r) ==
    /\ r.ret => relogio < MaxRelogio
    /\ contas' = [contas EXCEPT ![i] = r.obj]
    /\ aux' = [aux EXCEPT ![i].ok = IF r.ret THEN @ + 1 ELSE @]
    /\ relogio' = IF r.ret THEN relogio + 1 ELSE relogio
    /\ UNCHANGED <<usuarios, numero_conta_global, arquivo, construidos>>

\* realizar_operacao(contas, "depósito"): valor = float(input(...)); the value
\* returned by the method is discarded.
Depositar(i, v) ==
    /\ i \in 1..Len(contas)
    /\ Efeito(i, depositar(contas[i], Round(v), relogio))
    /\ ult' = Outra

\* realizar_operacao(contas, "saque")
Sacar(i, v) ==
    /\ i \in 1..Len(contas)
    /\ Efeito(i, sacar(contas[i], Round(v), relogio))
    /\ ult' = Outra

SalvarDados ==
    /\ arquivo' = salvar_dados(usuarios, contas)
    /\ ult' = Outra
    /\ UNCHANGED <<usuarios, contas, numero_conta_global, relogio, construidos, aux>>

\* usuarios, contas = carregar_dados()
CarregarDados ==
    LET r == carregar_dados(arquivo, numero_conta_global)
    IN  /\ r.numero <= MaxNumero + 1
        /\ numero_conta_global' = r.numero
        /\ construidos' = construidos \o Numeros(r.contas)
        /\ IF r.res = "ok"
           THEN /\ usuarios' = r.usuarios
                /\ contas' = r.contas
                /\ aux' = [i \in 1..Len(r.contas) |-> AuxDe(r.contas[i])]
           ELSE UNCHANGED <<usuarios, contas, aux>>
        /\ ult' = [op |-> "carregar_dados", valor |-> 0, ret |-> r.res, msg |-> ""]
        /\ UNCHANGED <<arquivo, relogio>>

\* A well-formed document in which the second account names a cpf that no
\* client of the document has.
DocOrfao ==
    LET u == PessoaFisica(Rep("1", TamanhoCPF), "Ana", "01/01/1990", "Rua A")
        c == ContaCorrente(1, 495, LimitePadrao, LimiteSaquesPadrao, NumeroInicial)
        d == ContaCorrente_to_dict(c, <<u>>)
    IN  json_dump([usuarios |-> <<PessoaFisica_to_dict(u)>>,
                   contas   |-> <<d, [d EXCEPT !.cpf = Rep("2", TamanhoCPF), !.numero = 2]>>])

ArquivosExternos == {TextoInvalido, BytesInvalidos, DocOrfao}

\* banco_data.json is written by something other than this process.
EditarArquivo(a) ==
    /\ arquivo' = a
    /\ ult' = Outra
    /\ UNCHANGED <<usuarios, contas, numero_conta_global, relogio, construidos, aux>>

Next ==
    \/ \E nome \in Nomes, d \in Datas, cpf \in CPFs, e \in Enderecos :
          CadastrarUsuario(nome, d, cpf, e)
    \/ \E cpf \in CPFs : CadastrarConta(cpf)
    \/ \E i \in 1..MaxContas, v \in Entradas : Depositar(i, v)
    \/ \E i \in 1..MaxContas, v \in Entradas : Sacar(i, v)
    \/ SalvarDados
    \/ CarregarDados

Spec == Init /\ [][Next]_vars

\* ------------------------------------------ the file written from outside
\* The program without deposits and withdrawals, with the message of each
\* registration observed and with banco_data.json also replaced from outside the
\* process between its calls.
NextArq ==
    \/ \E nome \in Nomes, d \in Datas, cpf \in CPFs, e \in Enderecos :
          CadastrarUsuarioVisto(nome, d, cpf, e)
    \/ \E cpf \in CPFs : CadastrarConta(cpf)
    \/ SalvarDados
    \/ CarregarDados
    \/ \E a \in ArquivosExternos : EditarArquivo(a)

SpecArq == Init /\ [][NextArq]_vars

\* ------------------------------------------------- the classes on their own
\* A caller of the classes: one account object of either class, constructed
\* with any arguments, then depositar and sacar calls whose result is observed.
SaldosIniciais  == {-600, 0, 495}
LimitesIniciais == {0, 500}
SaquesIniciais  == -1..LimiteSaquesPadrao

ObjetosIniciais ==
    {Conta(1, s, AgenciaPadrao, NumeroInicial) : s \in SaldosIniciais}
    \cup {ContaCorrente(1, s, l, n, NumeroInicial) :
              s \in SaldosIniciais, l \in LimitesIniciais, n \in SaquesIniciais}

InitObj ==
    /\ usuarios = <<PessoaFisica(Rep("1", TamanhoCPF), "Ana", "01/01/1990", "Rua A")>>
    /\ \E c \in ObjetosIniciais : contas = <<c>> /\ aux = <<AuxDe(c)>>
    /\ numero_conta_global = NumeroInicial + 1
    /\ arquivo = Ausente
    /\ relogio = 0
    /\ construidos = <<NumeroInicial>>
    /\ ult = Outra

Retorno(r) == IF r.ret THEN "True" ELSE "False"

ObjDepositar(valor) ==
    LET r == depositar(contas[1], valor, relogio)
    IN  /\ Efeito(1, r)
        /\ ult' = [op |-> "depositar", valor |-> valor, ret |-> Retorno(r), msg |-> r.msg]

ObjSacar(valor) ==
    LET r == sacar(contas[1], valor, relogio)
    IN  /\ Efeito(1, r)
        /\ ult' = [op |-> "sacar", valor |-> valor, ret |-> Retorno(r), msg |-> r.msg]

NextObj ==
    \/ \E v \in Entradas : ObjDepositar(Round(v))
    \/ \E v \in Entradas : ObjSacar(Round(v))

SpecObj == InitObj /\ [][NextObj]_vars

\* ===================================================================== claims
EhCorrente(c) == c.classe = "ContaCorrente"
EhBase(c)     == c.classe = "Conta"
Ultimo(h)     == h[Len(h)]
Chamada       == ult.op \in {"depositar", "sacar"}

\* C1: a checking account created with saldo >= -limite never has a balance
\* below -limite, whatever depositar and sacar calls are made on it.
C1_SaldoNuncaAbaixoDoLimite ==
    \A i \in 1..Len(contas) :
        (EhCorrente(contas[i]) /\ aux[i].saldo0 >= -contas[i].limite)
            => contas[i].saldo >= -contas[i].limite

\* C2: a base account created with saldo >= 0 never has a negative balance, and
\* no sacar call with an amount greater than the balance it finds succeeds.
C2_BaseNuncaNegativa ==
    /\ [](\A i \in 1..Len(contas) :
            (EhBase(contas[i]) /\ aux[i].saldo0 >= 0) => contas[i].saldo >= 0)
    /\ [][(EhBase(contas[1]) /\ aux[1].saldo0 >= 0 /\ ult'.op = "sacar"
            /\ ult'.valor > contas[1].saldo) => ult'.ret = "False"]_vars

\* C2 witness: a base account whose whole balance was withdrawn.
C2_Witness ==
    /\ EhBase(contas[1]) /\ aux[1].saldo0 > 0
    /\ ult.op = "sacar" /\ ult.ret = "True"
    /\ contas[1].saldo = 0

\* C3: a depositar or sacar call that returns False leaves the balance, the
\* history and the remaining withdrawal count of the account as they were.
C3_FalhaNaoAlteraNada ==
    [][(ult'.op \in {"depositar", "sacar"} /\ ult'.ret = "False") => contas' = contas]_vars

\* C3 witness: after an earlier success, a sacar beyond saldo + limite was refused
\* on a checking account that still had withdrawals left.
C3_Witness ==
    /\ EhCorrente(contas[1])
    /\ ult.op = "sacar" /\ ult.ret = "False"
    /\ ult.valor > contas[1].saldo + contas[1].limite
    /\ contas[1].limite_saques > 0
    /\ Len(contas[1].historico) > 0

\* C4: a call that returns True makes the history one entry longer, any other
\* call leaves its length alone, and the length is the number of calls that
\* returned True since the object was constructed.
C4_UmaEntradaPorSucesso ==
    /\ [](\A i \in 1..Len(contas) : Len(contas[i].historico) = aux[i].ok)
    /\ [][Len(contas'[1].historico) =
             Len(contas[1].historico) + (IF ult'.ret = "True" THEN 1 ELSE 0)]_vars

\* C4 witness: two calls succeeded and a third was refused.
C4_Witness ==
    /\ Len(contas[1].historico) = 2 /\ aux[1].ok = 2
    /\ Chamada /\ ult.ret = "False"

\* C5 as claimed: a successful deposit of v appends an entry with amount +v and
\* a successful withdrawal of v appends an entry with amount -v.
C5_Original ==
    [][(ult'.ret = "True") =>
          Ultimo(contas'[1].historico).valor =
              (IF ult'.op = "sacar" THEN -ult'.valor ELSE ult'.valor)]_vars

\* C5 amended: a successful deposit of v appends a Deposito entry with valor v
\* and a successful withdrawal of v appends a Saque entry with valor v: the
\* kind of the entry carries the direction, its valor is positive either way.
C5_EntradaPorTipo ==
    [][(ult'.ret = "True") =>
          /\ contas'[1].historico = Append(contas[1].historico, Ultimo(contas'[1].historico))
          /\ Ultimo(contas'[1].historico).valor = ult'.valor
          /\ Ultimo(contas'[1].historico).valor > 0
          /\ Ultimo(contas'[1].historico).tipo =
                (IF ult'.op = "sacar" THEN "Saque" ELSE "Deposito")]_vars

\* C5 witness: a withdrawal on a checking account succeeded and is the last entry.
C5_Witness ==
    /\ EhCorrente(contas[1])
    /\ ult.op = "sacar" /\ ult.ret = "True"
    /\ Ultimo(contas[1].historico) = Saque(ult.valor, relogio - 1)

\* ---------------------------------------------------------------- persistence
\* A step in which carregar_dados read a document and returned normally.
Carregou ==
    /\ arquivo.tipo = "json"
    /\ carregar_dados(arquivo, numero_conta_global).res = "ok"
    /\ CarregarDados

\* The file holds exactly what salvar_dados writes for the objects in memory.
RecemSalvo == arquivo = salvar_dados(usuarios, contas)

MesmoCliente(u, v) ==
    /\ u.cpf = v.cpf /\ u.nome = v.nome
    /\ u.data_nascimento = v.data_nascimento /\ u.endereco = v.endereco

\* us2, cs2 reproduce the clients of us and, account by account, the balance,
\* owner cpf, overdraft limit and remaining withdrawal count of cs.
Reproduz(us, cs, us2, cs2) ==
    /\ Len(us2) = Len(us)
    /\ \A i \in 1..Len(us) : MesmoCliente(us2[i], us[i])
    /\ Len(cs2) = Len(cs)
    /\ \A i \in 1..Len(cs) :
          /\ cs2[i].saldo = cs[i].saldo
          /\ us2[cs2[i].cliente].cpf = us[cs[i].cliente].cpf
          /\ cs2[i].limite = cs[i].limite
          /\ cs2[i].limite_saques = cs[i].limite_saques

\* (amount, timestamp) pairs of a history.
Pares(h) == [k \in 1..Len(h) |-> <<h[k].valor, h[k].data>>]

\* C6: saving the clients and checking accounts in memory and loading the file
\* again reproduces every client (cpf, name, birth date, address) and, in the
\* same order, every account's balance, owner cpf, overdraft limit and
\* remaining withdrawal count; this holds of the functions on every reachable
\* memory and of every load step taken right after a save.
C6_RoundTrip ==
    /\ [](LET r == carregar_dados(salvar_dados(usuarios, contas), numero_conta_global)
          IN  r.res = "ok" /\ Reproduz(usuarios, contas, r.usuarios, r.contas))
    /\ [][(RecemSalvo /\ Carregou) => Reproduz(usuarios, contas, usuarios', contas')]_vars

\* C6 witness: two accounts of two different clients were loaded from the file
\* with a non-zero balance and a withdrawal count that is no longer the default.
C6_Witness ==
    /\ arquivo.tipo = "json"
    /\ Len(construidos) > Len(contas)
    /\ Len(contas) = 2
    /\ Len(json_load(arquivo).contas) = 2
    /\ Len(json_load(arquivo).usuarios) = Len(usuarios)
    /\ contas[1].cliente # contas[2].cliente
    /\ \A i \in 1..Len(usuarios) : usuarios[i].cpf = json_load(arquivo).usuarios[i].cpf
    /\ \A i \in 1..2 : /\ contas[i].saldo = json_load(arquivo).contas[i].saldo
                        /\ usuarios[contas[i].cliente].cpf = json_load(arquivo).contas[i].cpf
                        /\ aux[i].saldo0 = contas[i].saldo
                        /\ contas[i].historico = <<>>
    /\ contas[1].saldo # 0
    /\ contas[1].limite_saques = LimiteSaquesPadrao - 1

\* C7: a load step taken right after a save gives every account the same
\* sequence of (amount, timestamp) history entries it had when it was saved.
C7_HistoricoRoundTrip ==
    [][(RecemSalvo /\ Carregou) =>
          /\ Len(contas') = Len(contas)
          /\ \A i \in 1..Len(contas) :
                Pares(contas'[i].historico) = Pares(contas[i].historico)]_vars

\* C8: after a load step every reconstructed account has the numero that the
\* document holds for it.
C8_NumeroPersistido ==
    [][Carregou =>
          \A i \in 1..Len(contas') :
              contas'[i].numero = json_load(arquivo).contas[i].numero]_vars

\* C9: no two account objects constructed in the process (by cadastrar_conta or
\* by carregar_dados) have the same numero; the counter starts at 1, grows by
\* exactly 1 per construction, never decreases, and is greater than every
\* numero already assigned.
SemRepetidos(q) == \A i, j \in 1..Len(q) : q[i] = q[j] => i = j

C9_NumerosUnicos ==
    /\ [](/\ SemRepetidos(construidos)
          /\ SemRepetidos(Numeros(contas))
          /\ \A i \in 1..Len(contas) : \E k \in 1..Len(construidos) : construidos[k] = contas[i].numero
          /\ \A k \in 1..Len(construidos) : construidos[k] < numero_conta_global
          /\ numero_conta_global = NumeroInicial + Len(construidos))
    /\ [][/\ numero_conta_global' >= numero_conta_global
           /\ numero_conta_global' - numero_conta_global = Len(construidos') - Len(construidos)
           /\ SubSeq(construidos', 1, Len(construidos)) = construidos]_vars

\* C9 witness: accounts were constructed by cadastrar_conta and by a later load.
C9_Witness ==
    /\ Len(contas) = 2
    /\ Len(construidos) = 4
    /\ Numeros(contas) = <<3, 4>>
    /\ numero_conta_global = 5

\* ------------------------------------------------------------ withdrawal count
\* Withdrawals recorded in a history: those that succeeded on the object.
NSaques(h) == Cardinality({k \in 1..Len(h) : h[k].tipo = "Saque"})

SaqueAceito == ult.op = "sacar" /\ ult.ret = "True"

\* C10: on a checking account each successful sacar takes exactly 1 from
\* limite_saques and nothing else changes it; a count that starts non-negative
\* never becomes negative; once it is 0 it stays 0 and every later sacar fails;
\* so at most the initial count of withdrawals succeed on one object.
C10_LimiteDeSaques ==
    /\ [](\A i \in 1..Len(contas) :
            (EhCorrente(contas[i]) /\ aux[i].saques0 >= 0) =>
                /\ contas[i].limite_saques >= 0
                /\ NSaques(contas[i].historico) = aux[i].saques0 - contas[i].limite_saques
                /\ NSaques(contas[i].historico) <= aux[i].saques0)
    /\ [][EhCorrente(contas[1]) =>
             /\ contas'[1].limite_saques =
                   contas[1].limite_saques - (IF SaqueAceito' THEN 1 ELSE 0)
             /\ contas[1].limite_saques = 0 =>
                   /\ contas'[1].limite_saques = 0
                   /\ ult'.op = "sacar" => ult'.ret = "False"]_vars

\* C10 witness: the count was used up by successful withdrawals, and a sacar of
\* an amount the balance covers was then refused.
C10_Witness ==
    /\ EhCorrente(contas[1])
    /\ aux[1].saques0 > 0 /\ contas[1].limite_saques = 0
    /\ NSaques(contas[1].historico) = aux[1].saques0
    /\ ult.op = "sacar" /\ ult.ret = "False"
    /\ ult.valor > 0 /\ ult.valor <= contas[1].saldo

\* ------------------------------------------------------------ order of checks
\* C11: ContaCorrente.sacar checks the withdrawal count first: with a count
\* <= 0 the call is refused as "withdrawal limit reached" even when the amount
\* is <= 0 or exceeds saldo + limite, and the "invalid amount or insufficient
\* funds" refusal is only given when the count is > 0.
C11_LimiteAntesDoValor ==
    [][(EhCorrente(contas[1]) /\ ult'.op = "sacar") =>
          /\ contas[1].limite_saques <= 0 =>
                (ult'.ret = "False" /\ ult'.msg = MsgLimiteSaques)
          /\ ult'.msg = MsgValorInvalido =>
                (ult'.ret = "False" /\ contas[1].limite_saques > 0)]_vars

\* C11 witness: an amount beyond saldo + limite was refused for the count, on an
\* account whose count had been used up by a successful withdrawal.
C11_Witness ==
    /\ EhCorrente(contas[1])
    /\ contas[1].limite_saques = 0 /\ aux[1].saques0 > 0
    /\ ult.op = "sacar" /\ ult.msg = MsgLimiteSaques
    /\ ult.valor > contas[1].saldo + contas[1].limite

\* ---- C12
NaoEhJSON(arq) == arq.tipo \in {"texto", "bytes"}

\* C12: carregar_dados returns empty client and account collections, without
\* raising, when the file is absent and when it exists but is not valid JSON.
C12_SemErroSemJSON ==
    [][(ult'.op = "carregar_dados" /\ (arquivo = Ausente \/ NaoEhJSON(arquivo))) =>
          (ult'.ret = "ok" /\ usuarios' = <<>> /\ contas' = <<>>)]_vars

\* ---- C13
\* The document has an account whose cpf matches no client of the document.
TemOrfao(arq) ==
    /\ arq.tipo = "json"
    /\ LET data == json_load(arq)
           us   == [i \in 1..Len(data.usuarios) |-> PessoaFisica_from_dict(data.usuarios[i])]
       IN  \E i \in 1..Len(data.contas) : ProcurarCliente(us, data.contas[i].cpf) = 0

\* C13: when the document contains an account whose cpf matches no client of
\* the document, carregar_dados ends with ValueError and hands nothing to its
\* caller: the caller's clients and accounts stay as they were, neither replaced
\* by the records before the bad one nor by empty lists.
C13_OrfaoAbortaCarga ==
    [][(ult'.op = "carregar_dados" /\ TemOrfao(arquivo)) =>
          (ult'.ret = "ValueError" /\ UNCHANGED <<usuarios, contas>>)]_vars

C13_Witness ==
    /\ ult.op = "carregar_dados" /\ ult.ret = "ValueError"
    /\ TemOrfao(arquivo)
    /\ Len(usuarios) = 2 /\ Len(contas) = 1
    /\ numero_conta_global = contas[1].numero + 2

\* ---- C14
\* The base-class part of an account object.
ComoBase(c) == [Conta(c.cliente, c.saldo, c.agencia, c.numero) EXCEPT !.historico = c.historico]

\* C14: depositar on a checking account succeeds iff the amount is > 0, whatever
\* the remaining withdrawal count and the overdraft limit are, gives the result,
\* balance and log that depositar gives on a base account with the same balance
\* and log, and leaves the withdrawal count and the overdraft limit unchanged.
C14_DepositoComoNaBase ==
    [][(EhCorrente(contas[1]) /\ ult'.op = "depositar") =>
          LET b == Conta_depositar(ComoBase(contas[1]), ult'.valor, relogio)
          IN  /\ ult'.ret = "True" <=> ult'.valor > 0
              /\ ult'.ret = Retorno(b) /\ ult'.msg = b.msg
              /\ ComoBase(contas'[1]) = b.obj
              /\ contas'[1].limite_saques = contas[1].limite_saques
              /\ contas'[1].limite = contas[1].limite]_vars

C14_Witness ==
    /\ EhCorrente(contas[1])
    /\ contas[1].limite_saques = 0 /\ contas[1].limite = 0
    /\ ult.op = "depositar" /\ ult.ret = "True"
    /\ Len(contas[1].historico) = 1

\* ---- C15
\* What a call on account i must leave alone.
Intocado(i) ==
    /\ Len(contas') = Len(contas)
    /\ \A j \in 1..Len(contas) : j # i => contas'[j] = contas[j]
    /\ usuarios' = usuarios
    /\ i \in 1..Len(contas) =>
          /\ contas'[i].numero = contas[i].numero
          /\ contas'[i].agencia = contas[i].agencia
          /\ contas'[i].cliente = contas[i].cliente
    /\ numero_conta_global' = numero_conta_global

\* C15: a depositar or sacar call on one account, successful or not, leaves
\* unchanged every other account (balance, log, withdrawal count), every client,
\* the account's own number, branch code and owner, and the account-number
\* counter: a step that does not leave them alone is no such call.
C15_SoAContaAlvoMuda ==
    [][\A i \in 1..MaxContas :
          Intocado(i) \/ \A v \in Entradas : ~(Depositar(i, v) \/ Sacar(i, v))]_vars

\* The second account was used first, then the first one.
C15_Witness ==
    /\ Len(contas) = 2
    /\ Len(contas[2].historico) = 1 /\ contas[2].historico[1].data = 0
    /\ Len(contas[1].historico) = 1 /\ contas[1].historico[1].data = 1
    /\ contas[1].historico[1].tipo = "Saque"
    /\ contas[2].saldo = 996 /\ contas[2].limite_saques = LimiteSaquesPadrao

\* ---- C16
CPFsDistintos(us) == \A i, j \in 1..Len(us) : us[i].cpf = us[j].cpf => i = j

\* C16: from clients with pairwise distinct cpf, every step leaves the cpfs
\* pairwise distinct; a cadastrar_usuario call whose cpf is that of an existing
\* client is rejected as a duplicate and leaves the clients unchanged.
C16_CPFsUnicos ==
    [][/\ CPFsDistintos(usuarios) => CPFsDistintos(usuarios')
       /\ (/\ ult'.op = "cadastrar_usuario"
           /\ \E i \in 1..Len(usuarios) : usuarios[i].cpf = ult'.cpf) =>
             (ult'.ret = "duplicado" /\ usuarios' = usuarios)]_vars

C16_Witness ==
    /\ ult.op = "cadastrar_usuario" /\ ult.ret = "duplicado"
    /\ Len(usuarios) = 2 /\ usuarios[2].cpf = ult.cpf
    /\ CPFsDistintos(usuarios)

\* ---- C17
\* C17: ContaCorrente.sacar returns True exactly when the remaining withdrawal
\* count is > 0 and 0 < valor <= saldo + limite (the sum as the machine computes
\* it); the new balance is then saldo - valor, and a withdrawal of exactly
\* saldo + limite leaves the balance at -limite.
C17_SaqueAteOLimite ==
    [][(EhCorrente(contas[1]) /\ ult'.op = "sacar") =>
          LET c == contas[1]
              v == ult'.valor
          IN  /\ ult'.ret = "True" <=>
                    (c.limite_saques > 0 /\ 0 < v /\ v <= FAdd(c.saldo, c.limite))
              /\ ult'.ret = "True" => contas'[1].saldo = FSub(c.saldo, v)
              /\ (ult'.ret = "True" /\ v = FAdd(c.saldo, c.limite)) =>
                    contas'[1].saldo = -c.limite]_vars

\* ---- C18
EhPrefixo(h, g) == Len(h) <= Len(g) /\ SubSeq(g, 1, Len(h)) = h

EmOrdem(h) == \A k \in 1..(Len(h) - 1) : h[k].data < h[k + 1].data

\* C18: the log of an account only grows at its end: across every depositar or
\* sacar call the log before is a prefix of the log after (so the log of every
\* earlier state is a prefix of the log of every later one), and the entries are
\* in the order in which the successful calls were made.
C18_LogSoCresce ==
    [][/\ EhPrefixo(contas[1].historico, contas'[1].historico)
       /\ EmOrdem(contas'[1].historico)]_vars

C18_Witness ==
    /\ Len(contas[1].historico) = 2
    /\ contas[1].historico[1].tipo = "Deposito" /\ contas[1].historico[1].data = 0
    /\ contas[1].historico[2].tipo = "Saque" /\ contas[1].historico[2].data = 1
    /\ ult.op = "sacar" /\ ult.ret = "False"

\* ---- C19
\* C19: Historico.from_dict(Historico.to_dict(h)) has the length and order of h
\* and every entry has the kind and the amount of the original entry;
\* withdrawals are written with a negative valor, deposits with a positive one.
C19_LogIdaEVolta ==
    LET h == contas[1].historico
        d == Historico_to_dict(h)
        g == Historico_from_dict(d, relogio)
    IN  /\ Len(g) = Len(h)
        /\ \A k \in 1..Len(h) :
              /\ g[k].tipo = h[k].tipo
              /\ g[k].valor = h[k].valor
              /\ h[k].tipo = "Saque" => d.transacoes[k].valor < 0
              /\ h[k].tipo = "Deposito" => d.transacoes[k].valor > 0

\* ---- C20
\* The amounts of the entries of one kind, added up exactly and added up as
\* floats from the first entry on.
RECURSIVE Soma(_, _)
Soma(h, tipo) ==
    IF h = <<>> THEN 0
    ELSE Soma(SubSeq(h, 1, Len(h) - 1), tipo)
            + (IF Ultimo(h).tipo = tipo THEN Ultimo(h).valor ELSE 0)

RECURSIVE FSoma(_, _)
FSoma(h, tipo) ==
    IF h = <<>> THEN 0
    ELSE FAdd(FSoma(SubSeq(h, 1, Len(h) - 1), tipo),
              IF Ultimo(h).tipo = tipo THEN Ultimo(h).valor ELSE 0)

\* C20: the balance of an account equals the balance the object was constructed
\* with, plus the sum of the deposit entries of its log, minus the sum of its
\* withdrawal entries, with the sums taken exactly or taken in machine arithmetic.
C20_SaldoConfereComOLog ==
    LET h == contas[1].historico
    IN  \/ contas[1].saldo = aux[1].saldo0 + Soma(h, "Deposito") - Soma(h, "Saque")
        \/ contas[1].saldo =
              FSub(FAdd(aux[1].saldo0, FSoma(h, "Deposito")), FSoma(h, "Saque"))

====
